---- MODULE Spec2Model ----
(***************************************************************************)
(* Model of EnemyManager (src/src/td-core/enemy-manager.ts): the pool of   *)
(* reusable enemy units of the tower defence game.  One action per public  *)
(* method; every method runs to completion in one step (single-threaded,   *)
(* frame-driven scene code).                                               *)
(*                                                                         *)
(* enemyList and enemyDict hold references to the same EnemyUnitObject     *)
(* instances (lines 119-120: the object is added to both, keyed by its     *)
(* index, which is its position in the list), so the objects are stored    *)
(* once, in enemyList, and enemyDict is read through enemyDictGetItem.     *)
(* Slot index i of the code is position i+1 of the TLA+ sequence.          *)
(***************************************************************************)
EXTENDS Integers, Sequences, FiniteSets, TLC

\* ---- bounds of the model ------------------------------------------------

\* largest value of enemySizeMax (the pool capacity) that is explored
MaxCapacity == 2
\* number of entries of EnemyData: the registered types are 0..NumTypes-1
NumTypes == 2
\* waves passed to AssignEnemyUnit are 1..MaxWave
MaxWave == 2
\* damage amounts passed to DamageUnit are 1..MaxDamage
MaxDamage == 1
\* enemySizeCur is never decremented by the manager; calls that could
\* increment it are explored while it is below this cap
MaxSizeCur == 3
\* values the owning game logic writes to enemySizeRemaining are 0..MaxRemaining
MaxRemaining == 1

VARIABLES
    enemySizeMax,        \* line 20: max allowed count of units
    enemyList,           \* lines 28, 30: the unit objects, in index order
    iterationIndex,      \* line 16: current scroll location
    iterationHalt,       \* line 17: index at which the running scan gives up
    enemySizeCur,        \* line 22
    enemySizeRemaining,  \* line 24
    UnitAttack,          \* line 44: the function the field holds, by name
    UnitDeath,           \* line 46: the function the field holds, by name
    last,                \* observation: the last call, its arguments and outcome
    prevFound,           \* observation: outcome of the latest successful GetEnemyUnit before the last call
    soleFreed,           \* observation: index i when the last call was ClearUnit(i) on a pool whose slots were all alive
    run                  \* observation: results of the AssignEnemyUnit calls made since the pool was last made all free

vars == <<enemySizeMax, enemyList, iterationIndex, iterationHalt, enemySizeCur,
          enemySizeRemaining, UnitAttack, UnitDeath, last, prevFound, soleFreed, run>>

\* lines 44, 46: the two callback fields
hooks == <<UnitAttack, UnitDeath>>

\* ---- values ---------------------------------------------------------------

\* types that have a model in enemyModelDict (lines 84-87)
RegisteredTypes == 0 .. (NumTypes - 1)
\* types a caller can pass when the asset table and the callers are out of
\* step: the registered ones and one that has no model
Types == 0 .. NumTypes
Waves == 1 .. MaxWave
Damages == 1 .. MaxDamage
\* indices a caller can pass: every slot of the largest pool and one past it
Indices == 0 .. MaxCapacity

\* outcome of a call: a unit object (by index), null, a thrown error, or nothing (void)
Slot(i) == [kind |-> "slot", index |-> i]
NONE == [kind |-> "null", index |-> 0]
ERROR == [kind |-> "error", index |-> 0]
VOID == [kind |-> "void", index |-> 0]

\* ---- collections (src/utilities/collections, not part of the sources) -----

\* what getItem yields for a key that holds no item
Undefined == [index |-> 0, isAlive |-> FALSE, type |-> 0,
              shape |-> {}, enabled |-> FALSE, defined |-> FALSE,
              onAttack |-> "", onDeath |-> ""]

\* List.size()
size(list) == Len(list)

\* List.getItem(index)
getItem(list, index) ==
    IF index + 1 \in DOMAIN list THEN list[index + 1] ELSE Undefined

\* Dictionary.getItem(index.toString()) on enemyDict
enemyDictGetItem(list, index) == getItem(list, index)

\* the list with the object of the given index replaced by obj
setItem(list, index, obj) == [list EXCEPT ![index + 1] = obj]

\* ---- EnemyUnitObject (src/td-core/enemy-entity, not part of the sources) --

\* new EnemyUnitObject(index, ..., this.UnitAttack, this.UnitDeath) (line 115):
\* no model shape attached yet; alive is the value of isAlive the constructor
\* leaves; the unit keeps the two functions it is given
NewEnemyUnitObject(index, alive) ==
    [index |-> index, isAlive |-> alive, type |-> 0,
     shape |-> {}, enabled |-> alive, defined |-> TRUE,
     onAttack |-> UnitAttack, onDeath |-> UnitDeath]

\* obj.SetEngineState(state)
SetEngineState(obj, state) == [obj EXCEPT !.enabled = state]

\* obj.Initialize(type, wave): the unit takes its new data, is alive and is
\* placed in the engine.  The wave is data of the unit alone (the manager
\* never reads it back) and is kept in the observation of the call only.
UnitInitialize(obj, type, wave) ==
    [obj EXCEPT !.type = type, !.isAlive = TRUE, !.enabled = TRUE]

\* obj.hasComponent(GLTFShape)
hasComponent(obj) == obj.shape # {}

\* obj.removeComponent(GLTFShape)
removeComponent(obj) == [obj EXCEPT !.shape = {}]

\* obj.addComponent(enemyModelDict.getItem(type.toString()))
addComponent(obj, type) == [obj EXCEPT !.shape = {type}]

\* ---- constructor (lines 50-92) --------------------------------------------

\* the observation of a call: its name and arguments, what it returned, and for
\*   AssignEnemyUnit: found, the result of GetEnemyUnit; examined, the number of
\*     units the scan examined; before, the chosen unit as it was before the call;
\*     detaches and attaches, the removeComponent and addComponent calls made;
\*     alive, the indices of the units alive before the call; freed, the value
\*     of soleFreed before the call; sizeCur, enemySizeCur before the call;
\*     cursor, iterationIndex before the call; first, the index examined first;
\*   DamageUnit: target, the unit whose TakeDamage was called with damage;
\*   a notification of a unit: invoked, the function the unit called;
\*   ClearUnits and Initialize: alive and remaining, the indices of the units
\*     alive and the value of enemySizeRemaining before the call
NoCall == [op |-> "constructor", type |-> 0, wave |-> 0, index |-> 0, damage |-> 0,
           found |-> VOID, ret |-> VOID, detaches |-> 0, attaches |-> 0, examined |-> 0,
           before |-> Undefined, alive |-> {}, freed |-> NONE, remaining |-> 0,
           sizeCur |-> 0, target |-> NONE, cursor |-> 0, first |-> 0, invoked |-> ""]

NoRun == [ok |-> FALSE, rets |-> <<>>]

Init ==
    /\ enemySizeMax \in 1 .. MaxCapacity
    /\ enemyList = <<>>
    /\ iterationIndex = 0
    /\ iterationHalt = 0
    /\ enemySizeCur = 0
    /\ enemySizeRemaining = 0
    /\ UnitAttack = "unitAttack"
    /\ UnitDeath = "unitDeath"
    /\ last = NoCall
    /\ prevFound = NONE
    /\ soleFreed = NONE
    /\ run = NoRun

\* ---- GetEnemyUnit (lines 125-149) -----------------------------------------

\* "push next index": the index is incremented and wraps to 0 at the end of the list
NextIndexNoWrap(index, list) == index + 1
NextIndexOffByOne(index, list) == IF index + 1 > size(list) THEN 0 ELSE index + 1
NextIndex(index, list) == IF index + 1 >= size(list) THEN 0 ELSE index + 1

\* line 128 and lines 130-131: the index the scan examines first
FirstIndexNoAdvance(index, list) == index
FirstIndexSkip(index, list) == NextIndex(NextIndex(index, list), list)
FirstIndex(index, list) == NextIndex(index, list)

\* line 137: the unit is free
IsFreeAlways(obj) == TRUE
IsFree(obj) == ~obj.isAlive

\* line 143: the scan gives up once it has checked the entry index
HaltReachedEarly(index, halt, list) == NextIndex(index, list) = halt
HaltReached(index, halt, list) == index = halt

\* lines 134-148: the loop, from the index it is about to examine; examined
\* counts the units examined so far.  Reading isAlive of an item the list does
\* not hold throws.
RECURSIVE Scan(_, _, _, _)
Scan(list, index, halt, examined) ==
    IF ~getItem(list, index).defined
    THEN [ret |-> ERROR, index |-> index, halt |-> halt, examined |-> examined]
    ELSE IF IsFree(getItem(list, index))
    THEN [ret |-> Slot(index), index |-> index, halt |-> halt, examined |-> examined + 1]
    ELSE IF HaltReached(index, halt, list)
    THEN [ret |-> NONE, index |-> index, halt |-> halt, examined |-> examined + 1]
    ELSE Scan(list, NextIndex(index, list), halt, examined + 1)

\* the whole method: its result, the iterationIndex and iterationHalt it leaves,
\* and first, the index it examines first
GetEnemyUnitFromStart(list, index) ==
    [first |-> FirstIndex(0, list)] @@ Scan(list, FirstIndex(0, list), 0, 0)
GetEnemyUnitHaltAfterAdvance(list, index) ==
    [first |-> FirstIndex(index, list)]
        @@ Scan(list, FirstIndex(index, list), FirstIndex(index, list), 0)
GetEnemyUnit(list, index) ==
    [first |-> FirstIndex(index, list)] @@ Scan(list, FirstIndex(index, list), index, 0)

\* ---- AssignEnemyUnit, shape change (lines 169-183) -------------------------

\* lines 170-177: the shape is removed
MustDetachAlways(obj, type) == hasComponent(obj)
MustDetachNever(obj, type) == FALSE
MustDetach(obj, type) == hasComponent(obj) /\ obj.type # type

\* lines 166-178: the unit after it is disabled and its shape is removed if it must be
AfterDetach(obj, type) ==
    IF MustDetach(obj, type)
    THEN removeComponent(SetEngineState(obj, FALSE))
    ELSE SetEngineState(obj, FALSE)

\* line 179: a new shape is added
MustAttach(obj, type) == ~hasComponent(AfterDetach(obj, type))

\* line 182: enemyModelDict holds no shape for the type, and addComponent throws
AttachThrows(obj, type) == MustAttach(obj, type) /\ type \notin RegisteredTypes

\* lines 179-186: the unit after the shape change and obj.Initialize(type, wave)
AfterAssign(obj, type, wave) ==
    UnitInitialize(IF MustAttach(obj, type)
                   THEN addComponent(AfterDetach(obj, type), type)
                   ELSE AfterDetach(obj, type),
                   type, wave)

\* ---- observations ------------------------------------------------------------

Count(b) == IF b THEN 1 ELSE 0

AliveSet(list) == {i \in 0 .. (size(list) - 1) : getItem(list, i).isAlive}

AllAlive(list) == \A i \in 0 .. (size(list) - 1) : getItem(list, i).isAlive

AllIndices(list) == 0 .. (size(list) - 1)

\* the results of the calls of a run of AssignEnemyUnit calls: the run is
\* followed up to one call past the capacity
RunAfterAssign(r, ret, list) ==
    IF r.ok /\ Len(r.rets) <= size(list)
    THEN [ok |-> TRUE, rets |-> Append(r.rets, ret)]
    ELSE NoRun

\* the result of the latest successful GetEnemyUnit up to and including the last call
LatestFound == IF last.found.kind = "slot" THEN last.found ELSE prevFound

\* ---- ClearUnit / ClearUnits (lines 201-219) ----------------------------------

\* lines 215, 218: the unit of a valid index after ClearUnit
ClearedAndDetached(obj) ==
    removeComponent(SetEngineState([obj EXCEPT !.isAlive = FALSE], FALSE))
Cleared(obj) == SetEngineState([obj EXCEPT !.isAlive = FALSE], FALSE)

\* lines 203-206: every unit of the list cleared
ClearedList(list) == [k \in DOMAIN list |-> Cleared(list[k])]

\* lines 207-208
SizeCurAfterClearUnitsKept(cur) == cur
SizeCurAfterClearUnits(cur) == 0

\* ---- Initialize (lines 95-108) -----------------------------------------------

\* lines 100-103, 111-121: units are added until the list holds max of them;
\* alive is the value of isAlive a new unit has
PrewarmAgain(list, max, alive) ==
    list \o [k \in 1 .. max |-> NewEnemyUnitObject(size(list) + k - 1, alive)]
RECURSIVE Prewarm(_, _, _)
Prewarm(list, max, alive) ==
    IF size(list) < max
    THEN Prewarm(Append(list, NewEnemyUnitObject(size(list), alive)), max, alive)
    ELSE list

Initialize ==
    /\ \E alive \in BOOLEAN :
           enemyList' = ClearedList(Prewarm(enemyList, enemySizeMax, alive))
    /\ enemySizeCur' = SizeCurAfterClearUnits(enemySizeCur)
    /\ enemySizeRemaining' = 0
    /\ last' = [NoCall EXCEPT !.op = "Initialize", !.alive = AliveSet(enemyList),
                              !.remaining = enemySizeRemaining]
    /\ prevFound' = LatestFound
    /\ soleFreed' = NONE
    /\ run' = [ok |-> TRUE, rets |-> <<>>]
    /\ UNCHANGED <<enemySizeMax, iterationIndex, iterationHalt, hooks>>

\* ---- AssignEnemyUnit (lines 154-191) -----------------------------------------

AssignEnemyUnit(type, wave) ==
    /\ enemySizeCur < MaxSizeCur
    /\ LET g == GetEnemyUnit(enemyList, iterationIndex)
           obj == IF g.ret.kind = "slot" THEN getItem(enemyList, g.ret.index) ELSE Undefined
           call == [NoCall EXCEPT !.op = "AssignEnemyUnit", !.type = type, !.wave = wave,
                                  !.found = g.ret, !.examined = g.examined,
                                  !.before = obj, !.alive = AliveSet(enemyList),
                                  !.freed = soleFreed, !.sizeCur = enemySizeCur,
                                  !.cursor = iterationIndex, !.first = g.first]
       IN  /\ iterationIndex' = g.index
           /\ iterationHalt' = g.halt
           /\ IF g.ret.kind # "slot"
              THEN /\ last' = [call EXCEPT !.ret = g.ret]
                   /\ run' = RunAfterAssign(run, g.ret, enemyList)
                   /\ UNCHANGED <<enemyList, enemySizeCur>>
              ELSE IF AttachThrows(obj, type)
              THEN /\ enemyList' = setItem(enemyList, g.ret.index, AfterDetach(obj, type))
                   /\ last' = [call EXCEPT !.ret = ERROR,
                                           !.detaches = Count(MustDetach(obj, type))]
                   /\ run' = RunAfterAssign(run, ERROR, enemyList)
                   /\ UNCHANGED enemySizeCur
              ELSE /\ enemyList' = setItem(enemyList, g.ret.index, AfterAssign(obj, type, wave))
                   /\ enemySizeCur' = enemySizeCur + 1
                   /\ last' = [call EXCEPT !.ret = g.ret,
                                           !.detaches = Count(MustDetach(obj, type)),
                                           !.attaches = Count(MustAttach(obj, type))]
                   /\ run' = RunAfterAssign(run, g.ret, enemyList)
           /\ prevFound' = LatestFound
           /\ soleFreed' = NONE
    /\ UNCHANGED <<enemySizeMax, enemySizeRemaining, hooks>>

\* ---- DamageUnit (lines 194-198) ----------------------------------------------

\* line 197: the unit whose TakeDamage is called; a key enemyDict does not hold throws
DamageTargetUnchecked(list, index) == Slot(index)
DamageTarget(list, index) ==
    IF enemyDictGetItem(list, index).defined THEN Slot(index) ELSE ERROR

\* the damage is handed to the unit's TakeDamage, which keeps the unit's health
\* (data of the unit alone, not read by the manager)
DamageUnit(index, damage) ==
    /\ last' = [NoCall EXCEPT !.op = "DamageUnit", !.index = index, !.damage = damage,
                              !.ret = IF DamageTarget(enemyList, index).kind = "slot"
                                      THEN VOID ELSE ERROR,
                              !.target = IF DamageTarget(enemyList, index).kind = "slot"
                                         THEN DamageTarget(enemyList, index) ELSE NONE]
    /\ prevFound' = LatestFound
    /\ soleFreed' = NONE
    /\ run' = NoRun
    /\ UNCHANGED <<enemySizeMax, enemyList, iterationIndex, iterationHalt,
                   enemySizeCur, enemySizeRemaining, hooks>>

\* ---- ClearUnits (lines 201-209) ----------------------------------------------

ClearUnits ==
    /\ enemyList' = ClearedList(enemyList)
    /\ enemySizeCur' = SizeCurAfterClearUnits(enemySizeCur)
    /\ enemySizeRemaining' = 0
    /\ last' = [NoCall EXCEPT !.op = "ClearUnits", !.alive = AliveSet(enemyList),
                              !.remaining = enemySizeRemaining]
    /\ prevFound' = LatestFound
    /\ soleFreed' = NONE
    /\ run' = IF size(enemyList) > 0 THEN [ok |-> TRUE, rets |-> <<>>] ELSE NoRun
    /\ UNCHANGED <<enemySizeMax, iterationIndex, iterationHalt, hooks>>

\* ---- ClearUnit (lines 212-219) -----------------------------------------------

ClearUnit(index) ==
    /\ IF enemyDictGetItem(enemyList, index).defined
       THEN /\ enemyList' = setItem(enemyList, index, Cleared(getItem(enemyList, index)))
            /\ last' = [NoCall EXCEPT !.op = "ClearUnit", !.index = index]
            /\ soleFreed' = IF size(enemyList) > 0 /\ AllAlive(enemyList)
                            THEN Slot(index) ELSE NONE
       ELSE /\ last' = [NoCall EXCEPT !.op = "ClearUnit", !.index = index, !.ret = ERROR]
            /\ soleFreed' = NONE
            /\ UNCHANGED enemyList
    /\ prevFound' = LatestFound
    /\ run' = NoRun
    /\ UNCHANGED <<enemySizeMax, iterationIndex, iterationHalt, enemySizeCur,
                   enemySizeRemaining, hooks>>

\* ---- the owning game logic ---------------------------------------------------

\* enemySizeRemaining is a public field: the manager only resets it, the wave
\* logic that owns the manager writes the number of enemies left in the wave
SetRemaining(n) ==
    /\ enemySizeRemaining # n
    /\ enemySizeRemaining' = n
    /\ last' = [NoCall EXCEPT !.op = "enemySizeRemaining ="]
    /\ prevFound' = LatestFound
    /\ UNCHANGED <<enemySizeMax, enemyList, iterationIndex, iterationHalt,
                   enemySizeCur, soleFreed, run, hooks>>

\* lines 44-47, 90-91: UnitAttack and UnitDeath are public fields that hold the
\* diagnostic defaults until the owning game logic assigns its handlers
InstallUnitAttack ==
    /\ UnitAttack # "handler"
    /\ UnitAttack' = "handler"
    /\ last' = [NoCall EXCEPT !.op = "UnitAttack ="]
    /\ prevFound' = LatestFound
    /\ UNCHANGED <<enemySizeMax, enemyList, iterationIndex, iterationHalt, enemySizeCur,
                   enemySizeRemaining, UnitDeath, soleFreed, run>>

InstallUnitDeath ==
    /\ UnitDeath # "handler"
    /\ UnitDeath' = "handler"
    /\ last' = [NoCall EXCEPT !.op = "UnitDeath ="]
    /\ prevFound' = LatestFound
    /\ UNCHANGED <<enemySizeMax, enemyList, iterationIndex, iterationHalt, enemySizeCur,
                   enemySizeRemaining, UnitAttack, soleFreed, run>>

\* ---- notifications of the units -----------------------------------------------

\* An alive unit that comes into attack range calls the attack function it was
\* constructed with; one whose health reaches zero calls the death function it
\* was constructed with, with its index.  Where in the unit the call is made
\* is code of enemy-entity; the step is the call alone.
AttackNotification(index) ==
    /\ getItem(enemyList, index).defined
    /\ getItem(enemyList, index).isAlive
    /\ last' = [NoCall EXCEPT !.op = "attack", !.index = index,
                              !.invoked = getItem(enemyList, index).onAttack]
    /\ prevFound' = LatestFound
    /\ soleFreed' = NONE
    /\ run' = NoRun
    /\ UNCHANGED <<enemySizeMax, enemyList, iterationIndex, iterationHalt, enemySizeCur,
                   enemySizeRemaining, hooks>>

DeathNotification(index) ==
    /\ getItem(enemyList, index).defined
    /\ getItem(enemyList, index).isAlive
    /\ last' = [NoCall EXCEPT !.op = "death", !.index = index,
                              !.invoked = getItem(enemyList, index).onDeath]
    /\ prevFound' = LatestFound
    /\ soleFreed' = NONE
    /\ run' = NoRun
    /\ UNCHANGED <<enemySizeMax, enemyList, iterationIndex, iterationHalt, enemySizeCur,
                   enemySizeRemaining, hooks>>

\* The callers of the game pass types of EnemyData, all of which have a model
\* in enemyModelDict; AttachThrows covers a type that has none.
Next ==
    \/ Initialize
    \/ \E type \in RegisteredTypes, wave \in Waves : AssignEnemyUnit(type, wave)
    \/ \E index \in Indices, damage \in Damages : DamageUnit(index, damage)
    \/ ClearUnits
    \/ \E index \in Indices : ClearUnit(index)
    \/ \E n \in 0 .. MaxRemaining : SetRemaining(n)

Spec == Init /\ [][Next]_vars

\* The same methods, called with a type that may have no model in enemyModelDict.
NextAnyType ==
    \/ Initialize
    \/ \E type \in Types, wave \in Waves : AssignEnemyUnit(type, wave)
    \/ \E index \in Indices, damage \in Damages : DamageUnit(index, damage)
    \/ ClearUnits
    \/ \E index \in Indices : ClearUnit(index)
    \/ \E n \in 0 .. MaxRemaining : SetRemaining(n)

SpecAnyType == Init /\ [][NextAnyType]_vars

\* The manager with the game logic that installs its handlers, at any time, and
\* the units that notify.
NextHooks ==
    \/ Initialize
    \/ \E type \in RegisteredTypes, wave \in Waves : AssignEnemyUnit(type, wave)
    \/ ClearUnits
    \/ \E index \in Indices : ClearUnit(index)
    \/ InstallUnitAttack
    \/ InstallUnitDeath
    \/ \E index \in Indices : AttackNotification(index)
    \/ \E index \in Indices : DeathNotification(index)

SpecHooks == Init /\ [][NextHooks]_vars

\* ---- claims --------------------------------------------------------------------

\* a call of AssignEnemyUnit has just returned
Assigned == last.op = "AssignEnemyUnit"

\* C1: after every call, enemySizeCur equals the number of units whose
\* isAlive is true.
C1_SizeCurIsAliveCount == enemySizeCur = Cardinality(AliveSet(enemyList))

\* C2: in every reachable state 0 <= enemySizeCur <= enemySizeMax.
C2_SizeCurInRange == 0 <= enemySizeCur /\ enemySizeCur <= enemySizeMax

\* C3: the unit GetEnemyUnit finds for AssignEnemyUnit is a unit of the list
\* that was not alive when the call was made.
C3_FoundWasFree ==
    (Assigned /\ last.found.kind = "slot") =>
        /\ last.found.index \in AllIndices(enemyList)
        /\ last.found.index \notin last.alive
        /\ ~last.before.isAlive

\* C3 witness: a unit was found by a scan that had to pass units that are alive.
C3_Witness ==
    /\ Assigned
    /\ last.found.kind = "slot"
    /\ last.examined >= 2
    /\ last.alive # {}

\* C4: on a pool that has units, AssignEnemyUnit returns null exactly when
\* every unit is alive at the time of the call; it returns null as a value (no
\* error is raised), and never while a unit is free.
C4_NullIffAllAlive ==
    Assigned =>
        /\ last.ret = NONE => last.alive = AllIndices(enemyList)
        /\ (size(enemyList) >= 1 /\ last.alive = AllIndices(enemyList)) => last.ret = NONE
        /\ (size(enemyList) >= 1 /\ last.alive # AllIndices(enemyList)) => last.ret.kind = "slot"

\* C4 witness: null is returned by a pool of at least two units that are all alive.
C4_Witness ==
    /\ Assigned
    /\ last.ret = NONE
    /\ size(enemyList) >= 2
    /\ last.alive = AllIndices(enemyList)

\* C5: from a pool of N units that are all free, the first N calls of
\* AssignEnemyUnit in a row return N units, no two the same, and the call
\* after them returns null.
C5_BurstFillsPool ==
    run.ok =>
        /\ \A k \in 1 .. Len(run.rets) :
               IF k <= size(enemyList)
               THEN run.rets[k].kind = "slot" /\ run.rets[k].index \in AllIndices(enemyList)
               ELSE run.rets[k] = NONE
        /\ \A j, k \in 1 .. Len(run.rets) :
               (j < k /\ k <= size(enemyList)) => run.rets[j] # run.rets[k]

\* C5 witness: a run of N+1 calls in a row on a pool of N >= 2 units.
C5_Witness ==
    /\ run.ok
    /\ size(enemyList) >= 2
    /\ Len(run.rets) = size(enemyList) + 1

\* C6: when every unit is alive and ClearUnit(i) is called, the next call of
\* AssignEnemyUnit returns unit i.
C6_ReturnsTheFreedUnit ==
    (Assigned /\ last.freed.kind = "slot") => last.ret = last.freed

\* C6 witness: the freed unit is returned by a scan that passed an alive unit first.
C6_Witness ==
    /\ Assigned
    /\ last.freed.kind = "slot"
    /\ last.ret = last.freed
    /\ last.examined >= 2

\* C7: when GetEnemyUnit finds the unit it found the time before, every other
\* unit was alive at the time of the second call.
C7_SameUnitOnlyIfOthersAlive ==
    (Assigned /\ last.found.kind = "slot" /\ last.found = prevFound) =>
        last.alive = AllIndices(enemyList) \ {last.found.index}

\* C7 witness: the same unit is found twice in a row in a pool of at least two units.
C7_Witness ==
    /\ Assigned
    /\ last.found.kind = "slot"
    /\ last.found = prevFound
    /\ size(enemyList) >= 2

\* C8: AssignEnemyUnit of a registered type, on the unit it chose: with a shape
\* attached and the unit's previous type equal to the requested type it makes no
\* removeComponent and no addComponent call; with a shape attached and another
\* previous type, one of each; with no shape attached, no removeComponent and
\* one addComponent call.  The unit ends with the shape of the requested type.
C8_TypeSwapPolicy ==
    (Assigned /\ last.ret.kind = "slot") =>
        /\ (last.before.shape # {} /\ last.before.type = last.type)
               => (last.detaches = 0 /\ last.attaches = 0)
        /\ (last.before.shape # {} /\ last.before.type # last.type)
               => (last.detaches = 1 /\ last.attaches = 1)
        /\ last.before.shape = {}
               => (last.detaches = 0 /\ last.attaches = 1)
        /\ getItem(enemyList, last.ret.index).shape = {last.type}
        /\ getItem(enemyList, last.ret.index).type = last.type

\* C8 witness: a unit that carried the shape of another type is assigned.
C8_Witness ==
    /\ Assigned
    /\ last.ret.kind = "slot"
    /\ last.before.shape # {}
    /\ last.before.type # last.type
    /\ last.detaches = 1
    /\ last.attaches = 1

\* C9: ClearUnits, alone or as the last step of Initialize, leaves every unit
\* with isAlive false, enemySizeCur 0 and enemySizeRemaining 0.
C9_ClearUnitsResets ==
    last.op \in {"ClearUnits", "Initialize"} =>
        /\ AliveSet(enemyList) = {}
        /\ enemySizeCur = 0
        /\ enemySizeRemaining = 0

\* C9 witness: ClearUnits was called with units alive and a wave in progress.
C9_Witness ==
    /\ last.op = "ClearUnits"
    /\ Cardinality(last.alive) >= 2
    /\ last.remaining > 0

\* C10: with no units in the list (before Initialize), AssignEnemyUnit returns
\* null and changes nothing.
C10_EmptyPoolReturnsNull ==
    (Assigned /\ size(enemyList) = 0) =>
        /\ last.ret = NONE
        /\ iterationIndex = 0
        /\ enemySizeCur = 0

\* C11: Initialize leaves enemySizeMax units in the list, with the indices
\* 0 .. enemySizeMax-1 in order; no other call changes the number of units, and
\* no call at all changes it, or the index of a unit, once the list holds
\* enemySizeMax units (a repeated Initialize adds nothing).
C11_CapacityFixed ==
    [][/\ last'.op = "Initialize" =>
              /\ size(enemyList') = enemySizeMax
              /\ \A i \in AllIndices(enemyList') : getItem(enemyList', i).index = i
       /\ last'.op # "Initialize" => size(enemyList') = size(enemyList)
       /\ size(enemyList) = enemySizeMax =>
              /\ size(enemyList') = enemySizeMax
              /\ \A i \in AllIndices(enemyList) :
                     getItem(enemyList', i).index = getItem(enemyList, i).index
       /\ enemySizeMax' = enemySizeMax]_vars

\* C11 witness: Initialize was called again on a pool that had units alive.
C11_Witness ==
    /\ last.op = "Initialize"
    /\ last.alive # {}
    /\ size(enemyList) = enemySizeMax
    /\ size(enemyList) >= 2

\* C12: AssignEnemyUnit with a type that has no model in enemyModelDict raises
\* an error and leaves the pool consistent: no unit is alive without a shape,
\* enemySizeCur is not incremented, and the chosen unit keeps the shape it had.
C12_UnknownTypeKeepsPool ==
    (Assigned /\ last.type \notin RegisteredTypes /\ last.found.kind = "slot") =>
        /\ last.ret = ERROR
        /\ \A i \in AllIndices(enemyList) :
               getItem(enemyList, i).isAlive => getItem(enemyList, i).shape # {}
        /\ enemySizeCur = last.sizeCur
        /\ getItem(enemyList, last.found.index).shape = last.before.shape

\* C13: DamageUnit(index, damage) with an index that is not the index of a unit
\* fails with an error, hands the damage to no unit and changes no unit, nor
\* iterationIndex, nor enemySizeCur; with the index of a unit it hands the
\* damage to that unit and no other, and changes neither iterationIndex nor
\* enemySizeCur.
C13_DamageUnit ==
    [][last'.op = "DamageUnit" =>
           /\ iterationIndex' = iterationIndex
           /\ enemySizeCur' = enemySizeCur
           /\ IF last'.index \in AllIndices(enemyList)
              THEN /\ last'.ret = VOID
                   /\ last'.target = Slot(last'.index)
                   /\ last'.damage \in Damages
              ELSE /\ last'.ret = ERROR
                   /\ last'.target = NONE
                   /\ enemyList' = enemyList]_vars

\* C13 witness: DamageUnit failed on an index past the units of a pool that has
\* units alive.
C13_Witness ==
    /\ last.op = "DamageUnit"
    /\ last.ret = ERROR
    /\ last.index = size(enemyList)
    /\ AliveSet(enemyList) # {}

\* C14: on a pool of at least one unit GetEnemyUnit ends with a unit or null
\* after examining at least one and at most size units, so no unit twice; a
\* pool of one unit examines its unit once, returns it when it is free and
\* null when it is alive.
C14_ScanEnds ==
    (Assigned /\ size(enemyList) >= 1) =>
        /\ last.found.kind \in {"slot", "null"}
        /\ last.examined >= 1
        /\ last.examined <= size(enemyList)
        /\ size(enemyList) = 1 =>
               /\ last.examined = 1
               /\ last.alive = {} => last.found = Slot(0)
               /\ last.alive = {0} => last.found = NONE

\* C14 witness: the pool of one unit assigns its unit again after it was
\* assigned and then cleared by ClearUnit(0).
C14_Witness ==
    /\ Assigned
    /\ size(enemyList) = 1
    /\ last.freed = Slot(0)
    /\ last.ret = Slot(0)
    /\ last.examined = 1

\* C15, as claimed: iterationHalt is recorded after iterationIndex is advanced,
\* so it is the index the scan examines first.
C15_HaltIsFirstExamined ==
    (Assigned /\ size(enemyList) >= 1) => iterationHalt = last.first

\* C15, amended: iterationHalt is recorded before iterationIndex is advanced: it
\* is the value iterationIndex had when the call was made, the scan examines
\* the index after it first, and in a pool of two or more units the two differ.
C15_HaltIsCursorBefore ==
    (Assigned /\ size(enemyList) >= 1) =>
        /\ iterationHalt = last.cursor
        /\ last.first = (last.cursor + 1) % size(enemyList)
        /\ size(enemyList) >= 2 => iterationHalt # last.first

\* C15 witness: a scan of a pool of two units that examined both, the entry
\* index last.
C15_Witness ==
    /\ Assigned
    /\ size(enemyList) >= 2
    /\ last.examined = size(enemyList)
    /\ iterationIndex = iterationHalt
    /\ last.first # iterationHalt

\* C16: a successful GetEnemyUnit returns the first unit that is not alive in
\* circular index order from (iterationIndex before the call + 1) mod size, and
\* leaves iterationIndex on the unit returned; no other call moves iterationIndex.
C16_FirstFreeInCircularOrder ==
    [][/\ (last'.op = "AssignEnemyUnit" /\ last'.found.kind = "slot") =>
              /\ iterationIndex' = last'.found.index
              /\ \E k \in 0 .. (size(enemyList) - 1) :
                     /\ last'.found.index = (iterationIndex + 1 + k) % size(enemyList)
                     /\ ~getItem(enemyList, last'.found.index).isAlive
                     /\ \A j \in 0 .. (k - 1) :
                            getItem(enemyList,
                                    (iterationIndex + 1 + j) % size(enemyList)).isAlive
       /\ last'.op # "AssignEnemyUnit" => iterationIndex' = iterationIndex]_vars

\* C16 witness: the unit found lies before the cursor, past an alive unit, so
\* the scan wrapped around the end of the list.
C16_Witness ==
    /\ Assigned
    /\ last.found.kind = "slot"
    /\ last.examined >= 2
    /\ last.found.index <= last.cursor
    /\ iterationIndex = last.found.index

\* C17: ClearUnit(index) on the index of a unit leaves that unit not alive and
\* out of the engine, with the type and the shape it had; every other unit,
\* the number of units and iterationIndex are unchanged.
C17_ClearUnitFrame ==
    [][(last'.op = "ClearUnit" /\ last'.index \in AllIndices(enemyList)) =>
           /\ last'.ret = VOID
           /\ ~getItem(enemyList', last'.index).isAlive
           /\ ~getItem(enemyList', last'.index).enabled
           /\ getItem(enemyList', last'.index).type = getItem(enemyList, last'.index).type
           /\ getItem(enemyList', last'.index).shape = getItem(enemyList, last'.index).shape
           /\ getItem(enemyList', last'.index).index = last'.index
           /\ size(enemyList') = size(enemyList)
           /\ \A j \in AllIndices(enemyList) \ {last'.index} :
                  getItem(enemyList', j) = getItem(enemyList, j)
           /\ iterationIndex' = iterationIndex]_vars

\* C17 witness: ClearUnit cleared one unit of a full pool of at least two
\* units; the unit keeps its shape and another unit is still alive.
C17_Witness ==
    /\ last.op = "ClearUnit"
    /\ soleFreed = Slot(last.index)
    /\ size(enemyList) >= 2
    /\ getItem(enemyList, last.index).shape # {}
    /\ AliveSet(enemyList) # {}

\* C19: a call of AssignEnemyUnit that returns null on a pool of at least one
\* unit leaves iterationIndex at the value it had before the call and changes
\* no unit and neither counter.
C19_NullLeavesPoolUnchanged ==
    [][(last'.op = "AssignEnemyUnit" /\ last'.ret = NONE /\ size(enemyList) >= 1) =>
           /\ iterationIndex' = iterationIndex
           /\ enemyList' = enemyList
           /\ enemySizeCur' = enemySizeCur
           /\ enemySizeRemaining' = enemySizeRemaining]_vars

\* C19 witness: null was returned after the scan went once around a full pool
\* of at least two units and came back to the index it started from.
C19_Witness ==
    /\ Assigned
    /\ last.ret = NONE
    /\ size(enemyList) >= 2
    /\ last.examined = size(enemyList)
    /\ iterationIndex = last.cursor
    /\ enemySizeCur = last.sizeCur

\* C20: with registered types, every unit that has a shape attached has the
\* shape registered for its type, and every alive unit has a shape attached.
C20_ShapeMatchesType ==
    \A i \in AllIndices(enemyList) :
        /\ getItem(enemyList, i).shape # {} =>
               getItem(enemyList, i).shape = {getItem(enemyList, i).type}
        /\ getItem(enemyList, i).isAlive => getItem(enemyList, i).shape # {}

\* C20 witness: a unit was assigned a type other than the one whose shape it
\* carried, while another unit, free, still carries a shape.
C20_Witness ==
    /\ Assigned
    /\ last.ret.kind = "slot"
    /\ last.before.shape # {}
    /\ last.before.shape # {last.type}
    /\ \E i \in AllIndices(enemyList) :
           ~getItem(enemyList, i).isAlive /\ getItem(enemyList, i).shape # {}

\* C18: once the game logic has installed a handler in UnitDeath or UnitAttack,
\* every later death or attack notification of a unit invokes that handler and
\* not the diagnostic default, whether it was installed before or after
\* Initialize created the units.
C18_InstalledHandlerInvoked ==
    /\ (last.op = "death" /\ UnitDeath = "handler") => last.invoked = "handler"
    /\ (last.op = "attack" /\ UnitAttack = "handler") => last.invoked = "handler"

====
